---- MODULE Spec2Model ----
(***************************************************************************)
(* Resume_Viewer, src/App.tsx: the App component's state (file,            *)
(* isDragging, analysis), its upload handlers with the asynchronous        *)
(* FileReader read, the constant analysis producer analyzeResume and the   *)
(* paginated PDF renderer handleDownloadReport.                            *)
(*                                                                         *)
(* A string is modelled by its length in characters: the renderer never    *)
(* looks at a string except to hand it to splitTextToSize and text.  A     *)
(* jsPDF document is modelled by the sequence of calls made on it (text,   *)
(* addPage, save), each text call with the page and the vertical position  *)
(* it draws at.                                                            *)
(***************************************************************************)
EXTENDS Integers, Sequences, FiniteSets

VARIABLES file, isDragging, analysis, pending, nUploads, doc, saved

vars == <<file, isDragging, analysis, pending, nUploads, doc, saved>>

(***************************************************************************)
(* Bounds of the model.                                                    *)
(***************************************************************************)
MaxUploads == 2
MaxDownloads == 2
MaxDay == 2
MaxItems == 7
ShortLen == 20
LongLen == 100
MaxCalls == 120

FileNames == {"a.pdf", "b.docx"}
Contents == {"x", "y"}
Files == [name : FileNames, content : Contents]
Dates == 1..MaxDay

NULL == [null |-> TRUE]

(***************************************************************************)
(* Layout constants of handleDownloadReport and the default jsPDF page     *)
(* (a4, millimetres).                                                      *)
(***************************************************************************)
yPos0 == 20
lineHeight == 10
margin == 20
pageWidth == 210
pageHeight == 297
footerOffset == 10
CharWidth == 2

RECURSIVE Sum(_)
Sum(s) == IF s = <<>> THEN 0 ELSE Head(s) + Sum(Tail(s))

\* Array.prototype.join(', ') on strings given by their lengths.
join(s, sep) == IF s = <<>> THEN 0 ELSE Sum(s) + sep * (Len(s) - 1)

\* doc.splitTextToSize(item, maxWidth): the number of lines the string wraps
\* into; never fewer than one, also for the empty string.
splitTextToSize(item, maxWidth) ==
    LET w == item * CharWidth
    IN  IF w <= maxWidth THEN 1 ELSE (w + maxWidth - 1) \div maxWidth

\* getFilePreview: FileReader.readAsDataURL, the data URL of the file's bytes.
getFilePreview(f) == <<"data:", f.content>>


(***************************************************************************)
(* analyzeResume: the value handed to setAnalysis.  Every field but        *)
(* fileName and filePreview is a literal of the source; each string        *)
(* literal is given by its length.                                         *)
(***************************************************************************)
analyzeResume(f, filePreview) ==
    [ score |-> 85,
      fileName |-> f.name,
      filePreview |-> filePreview,
      detailedAnalysis |->
        [ readability |-> [score |-> 90, feedback |-> <<35, 39, 63, 36>>],
          keywords |-> [score |-> 85, found |-> <<18, 5, 10, 18>>,
                        missing |-> <<13, 17, 25>>],
          experience |-> [score |-> 88, feedback |-> <<50, 41, 46, 55>>],
          education |-> [score |-> 95, feedback |-> <<38, 36, 43, 52>>] ],
      softSkills |-> <<10, 13, 15, 8, 12, 15, 17>>,
      hardSkills |-> <<5, 10, 7, 6, 18, 19, 13>>,
      suggestions |->
        [ critical |-> <<56, 47, 33>>,
          recommended |-> <<60, 27, 48>>,
          optional |-> <<42, 38, 31>> ],
      semanticAnalysis |->
        [ measurableAchievements |-> 6,
          skillsEfficiencyRatio |-> 1,
          impactVerbs |-> <<3, 11, 9, 7, 12, 11>>,
          industryKeywords |-> <<22, 17, 22, 18>> ] ]

(***************************************************************************)
(* The jsPDF object: the calls made on it so far, its page count, and the  *)
(* handler's cursor yPos.                                                  *)
(***************************************************************************)
\* Mutant: the cursor lives outside the handler and is not reset.
newDoc_Stale ==
    [calls |-> <<>>, pages |-> 1, yPos |-> yPos0 + lineHeight * Len(saved)]

newDoc == [calls |-> <<>>, pages |-> 1, yPos |-> yPos0]

\* doc.text(...) at vertical position y of the current page.
text(st, kind, txt, item, line, y) ==
    [st EXCEPT !.calls = Append(@, [kind |-> kind, text |-> txt, item |-> item,
                                    line |-> line, page |-> st.pages, y |-> y])]

\* doc.addPage()
addPage(st) ==
    [st EXCEPT !.pages = @ + 1,
               !.calls = Append(@, [kind |-> "addPage", text |-> "", item |-> 0,
                                    line |-> 0, page |-> st.pages + 1, y |-> 0])]

\* yPos += dy
advance(st, dy) == [st EXCEPT !.yPos = @ + dy]

\* Mutant: the cursor is not reset to the top margin on the new page.
breakPage_KeepCursor(st) ==
    IF st.yPos > pageHeight - margin
    THEN addPage(st)
    ELSE st

\* Mutant: the footer is repeated on every page that is left.
breakPage_WithFooter(st) ==
    IF st.yPos > pageHeight - margin
    THEN [addPage(text(st, "footer", "", 0, 0, pageHeight - footerOffset))
            EXCEPT !.yPos = margin]
    ELSE st

\* Mutant: no page break at all.
breakPage_Never(st) == st

\* if (yPos > doc.internal.pageSize.height - margin) { addPage; yPos = margin }
breakPage(st) ==
    IF st.yPos > pageHeight - margin
    THEN [addPage(st) EXCEPT !.yPos = margin]
    ELSE st

\* doc.text(`* ${line}`, margin + 5, yPos); yPos += lineHeight
bullet(st, title, i, l) ==
    advance(text(st, "bullet", title, i, l, st.yPos), lineHeight)

\* Mutant: the page-break test runs after the line is drawn.
drawLine_BreakAfter(st, title, i, l) == breakPage(bullet(st, title, i, l))

\* The body of lines.forEach: the page-break test, the bullet, the advance.
drawLine(st, title, i, l) == bullet(breakPage(st), title, i, l)

\* The statements before a loop iteration have run, and the cursor has its
\* value, before the iteration starts.  (TLC passes operator arguments
\* unevaluated; reading the cursor at the head of each iteration keeps the
\* evaluation of the loops below iterative.)
ran(st) == st.yPos >= yPos0

\* lines.forEach over the wrapped lines l..n of item i.
RECURSIVE drawLines(_, _, _, _, _)
drawLines(st, title, i, l, n) ==
    IF ran(st) /\ l > n THEN st
    ELSE drawLines(drawLine(st, title, i, l), title, i, l + 1, n)

\* content.forEach from item i on.
RECURSIVE drawItems(_, _, _, _)
drawItems(st, title, content, i) ==
    IF ran(st) /\ i > Len(content) THEN st
    ELSE drawItems(
           drawLines(st, title, i, 1,
                     splitTextToSize(content[i], pageWidth - (margin * 2) - 10)),
           title, content, i + 1)

\* doc.text(title, margin, yPos); yPos += lineHeight
heading(st, title) == advance(text(st, "heading", title, 0, 0, st.yPos), lineHeight)

\* Mutant: the page-break test also runs before the heading.
addSection_BreakBeforeHeading(st, title, content) ==
    advance(drawItems(heading(breakPage(st), title), title, content, 1), lineHeight)

\* Mutant: a section without content is skipped, heading included.
addSection_SkipEmpty(st, title, content) ==
    IF content = <<>> THEN st
    ELSE advance(drawItems(heading(st, title), title, content, 1), lineHeight)

addSection(st, title, content) ==
    advance(drawItems(heading(st, title), title, content, 1), lineHeight)

\* The eleven addSection calls of handleDownloadReport, in source order.
\* 'Found Keywords: ' has 16 characters, 'Missing Important Keywords: ' 28.
Sections(a) ==
    << [title |-> "Readability Analysis",
        content |-> a.detailedAnalysis.readability.feedback],
       [title |-> "Keyword Analysis",
        content |-> << 16 + join(a.detailedAnalysis.keywords.found, 2),
                       28 + join(a.detailedAnalysis.keywords.missing, 2) >>],
       [title |-> "Experience Analysis",
        content |-> a.detailedAnalysis.experience.feedback],
       [title |-> "Education Analysis",
        content |-> a.detailedAnalysis.education.feedback],
       [title |-> "Impact Verbs Used",
        content |-> a.semanticAnalysis.impactVerbs],
       [title |-> "Industry-Specific Keywords",
        content |-> a.semanticAnalysis.industryKeywords],
       [title |-> "Critical Improvements Needed",
        content |-> a.suggestions.critical],
       [title |-> "Recommended Improvements",
        content |-> a.suggestions.recommended],
       [title |-> "Optional Enhancements",
        content |-> a.suggestions.optional],
       [title |-> "Hard Skills", content |-> a.hardSkills],
       [title |-> "Soft Skills", content |-> a.softSkills] >>

\* Mutant: the sections are emitted last to first.
RECURSIVE addSections_Reversed(_, _, _)
addSections_Reversed(st, secs, k) ==
    IF ran(st) /\ k > Len(secs) THEN st
    ELSE addSections_Reversed(
           addSection(st, secs[Len(secs) + 1 - k].title,
                      secs[Len(secs) + 1 - k].content),
           secs, k + 1)

RECURSIVE addSections(_, _, _)
addSections(st, secs, k) ==
    IF ran(st) /\ k > Len(secs) THEN st
    ELSE addSections(addSection(st, secs[k].title, secs[k].content), secs, k + 1)

\* Title, file information and overall score.
drawTitle(st) ==
    advance(text(st, "title", "Resume Analysis Report", 0, 0, st.yPos),
            lineHeight * 2)

\* Mutant: the file line also shows the preview, which encodes the content.
drawFileName_WithPreview(st, a) ==
    advance(text(st, "fileName", a.filePreview[2], 0, 0, st.yPos), lineHeight)

drawFileName(st, a) ==
    advance(text(st, "fileName", a.fileName, 0, 0, st.yPos), lineHeight)

drawDate(st, date) ==
    advance(text(st, "date", "Analysis Date", date, 0, st.yPos), lineHeight * 2)

drawScore(st, a) ==
    advance(text(st, "score", "Overall ATS Score", a.score, 0, st.yPos),
            lineHeight * 2)

drawHeader(st, a, date) == drawScore(drawDate(drawFileName(drawTitle(st), a), date), a)

footerText == "Generated by Resume Check - Comprehensive ATS Analysis Report"

drawFooter(st) == text(st, "footer", footerText, 0, 0, pageHeight - footerOffset)

\* doc.save('detailed-resume-analysis.pdf')
save(st) ==
    [st EXCEPT !.calls = Append(@, [kind |-> "save",
                                    text |-> "detailed-resume-analysis.pdf",
                                    item |-> 0, line |-> 0,
                                    page |-> st.pages, y |-> 0])]

\* Mutant: the file is saved before the footer is drawn.
Render_SaveBeforeFooter(a, date) ==
    drawFooter(save(addSections(drawHeader(newDoc, a, date), Sections(a), 1))).calls

\* The calls one run of handleDownloadReport makes on its jsPDF object when
\* none of them throws.
Render(a, date) ==
    save(drawFooter(addSections(drawHeader(newDoc, a, date), Sections(a), 1))).calls


(***************************************************************************)
(* The event handlers of App.                                              *)
(***************************************************************************)
handleDragOver ==
    /\ isDragging' = TRUE
    /\ UNCHANGED <<file, analysis, pending, nUploads, doc, saved>>

handleDragLeave ==
    /\ isDragging' = FALSE
    /\ UNCHANGED <<file, analysis, pending, nUploads, doc, saved>>

\* handleFileUpload up to its await: setFile, then the FileReader read of
\* the file is in flight.
handleFileUpload(f) ==
    /\ nUploads < MaxUploads
    /\ file' = f
    /\ pending' = [pending EXCEPT ![f] = @ + 1]
    /\ nUploads' = nUploads + 1

\* f = NULL: e.dataTransfer.files[0] is undefined.
handleDrop(f) ==
    /\ isDragging' = FALSE
    /\ IF f # NULL
       THEN handleFileUpload(f)
       ELSE UNCHANGED <<file, pending, nUploads>>
    /\ UNCHANGED <<analysis, doc, saved>>

\* f = NULL: e.target.files?.[0] is undefined.
handleFileSelect(f) ==
    /\ IF f # NULL
       THEN handleFileUpload(f)
       ELSE UNCHANGED <<file, pending, nUploads>>
    /\ UNCHANGED <<isDragging, analysis, doc, saved>>

\* reader.onload of one read in flight resolves getFilePreview's promise
\* and handleFileUpload resumes after its await: analyzeResume sets the
\* analysis.  Reads of different FileReaders complete in any order.
readComplete(f) ==
    /\ pending[f] > 0
    /\ pending' = [pending EXCEPT ![f] = @ - 1]
    /\ analysis' = analyzeResume(f, getFilePreview(f))
    /\ UNCHANGED <<file, isDragging, nUploads, doc, saved>>

\* The calls made when the failAt-th call of `run` throws: the exception
\* leaves the handler and the remaining calls are never made.  failAt = 0:
\* every call returns.
made(run, failAt) == IF failAt = 0 THEN run ELSE SubSeq(run, 1, failAt - 1)

hasSave(calls) == \E i \in 1..Len(calls) : calls[i].kind = "save"

\* The file a save call delivers: what was drawn before it.
delivered(calls, a) ==
    LET k == CHOOSE i \in 1..Len(calls) : calls[i].kind = "save"
    IN  [fileName |-> calls[k].text, doc |-> SubSeq(calls, 1, k - 1),
         analysis |-> a]

\* The effect of one run of the handler that made `calls` on its document.
download(calls) ==
    /\ doc' = [calls |-> calls]
    /\ saved' = IF hasSave(calls)
                THEN Append(saved, delivered(calls, analysis))
                ELSE saved

\* A run in which the failAt-th of the calls of `run` throws, if it has one.
attempt(run, failAt) ==
    /\ failAt <= Len(run)
    /\ download(made(run, failAt))

\* Mutant: the jsPDF object is created before the test of analysis.
handleDownloadReport_DocFirst(date, failAt) ==
    IF analysis = NULL
    THEN /\ doc' = [calls |-> <<>>]
         /\ UNCHANGED <<file, isDragging, analysis, pending, nUploads, saved>>
    ELSE /\ Len(saved) < MaxDownloads
         /\ attempt(Render(analysis, date), failAt)
         /\ UNCHANGED <<file, isDragging, analysis, pending, nUploads>>

\* One click on the download button on day `date`; failAt as in `made`.
handleDownloadReport(date, failAt) ==
    IF analysis = NULL
    THEN UNCHANGED vars
    ELSE /\ Len(saved) < MaxDownloads
         /\ attempt(Render(analysis, date), failAt)
         /\ UNCHANGED <<file, isDragging, analysis, pending, nUploads>>

(***************************************************************************)
(* The application: state after construction and its events.               *)
(***************************************************************************)
Init ==
    /\ file = NULL
    /\ isDragging = FALSE
    /\ analysis = NULL
    /\ pending = [f \in Files |-> 0]
    /\ nUploads = 0
    /\ doc = NULL
    /\ saved = <<>>

Next ==
    \/ handleDragOver
    \/ handleDragLeave
    \/ \E f \in Files \cup {NULL} : handleDrop(f)
    \/ \E f \in Files \cup {NULL} : handleFileSelect(f)
    \/ \E f \in Files : readComplete(f)
    \/ \E d \in Dates : handleDownloadReport(d, 0)

Spec == Init /\ [][Next]_vars

(***************************************************************************)
(* The renderer on arbitrary reports: handleDownloadReport as a function   *)
(* of the analysis it is given, each call on the jsPDF object allowed to   *)
(* throw.  The lists of a report are drawn from Shapes, one shape for      *)
(* each group of fields.                                                   *)
(***************************************************************************)
Rep(n, len) == [i \in 1..n |-> len]

Shapes == { <<>>, <<ShortLen, LongLen>>, Rep(MaxItems, ShortLen) }

MkReport(fb, kw, sem, sug, sk) ==
    [ score |-> 85,
      fileName |-> "a.pdf",
      filePreview |-> getFilePreview([name |-> "a.pdf", content |-> "x"]),
      detailedAnalysis |->
        [ readability |-> [score |-> 90, feedback |-> fb],
          keywords |-> [score |-> 85, found |-> kw, missing |-> kw],
          experience |-> [score |-> 88, feedback |-> fb],
          education |-> [score |-> 95, feedback |-> fb] ],
      softSkills |-> sk,
      hardSkills |-> sk,
      suggestions |-> [critical |-> sug, recommended |-> sug, optional |-> sug],
      semanticAnalysis |->
        [ measurableAchievements |-> 6,
          skillsEfficiencyRatio |-> 1,
          impactVerbs |-> sem,
          industryKeywords |-> sem ] ]

Reports ==
    { MkReport(fb, kw, sem, sug, sk) :
        fb \in Shapes, kw \in Shapes, sem \in Shapes, sug \in Shapes, sk \in Shapes }

RenderInit ==
    /\ file = [name |-> "a.pdf", content |-> "x"]
    /\ isDragging = FALSE
    /\ analysis \in Reports
    /\ pending = [f \in Files |-> 0]
    /\ nUploads = 1
    /\ doc = NULL
    /\ saved = <<>>

RenderNext ==
    \E d \in Dates : \E failAt \in 0..MaxCalls :
        /\ doc = NULL
        /\ handleDownloadReport(d, failAt)

SpecRender == RenderInit /\ [][RenderNext]_vars


(***************************************************************************)
(* Reading a document: the sequence of calls made on a jsPDF object.       *)
(***************************************************************************)
Count(calls, kind) == Cardinality({i \in 1..Len(calls) : calls[i].kind = kind})

pagesOf(calls) == 1 + Count(calls, "addPage")

BodyKinds == {"title", "fileName", "date", "score", "heading", "bullet"}

HeaderKinds == <<"title", "fileName", "date", "score">>

SectionTitles ==
    << "Readability Analysis", "Keyword Analysis", "Experience Analysis",
       "Education Analysis", "Impact Verbs Used", "Industry-Specific Keywords",
       "Critical Improvements Needed", "Recommended Improvements",
       "Optional Enhancements", "Hard Skills", "Soft Skills" >>

isHeading(c) == c.kind = "heading"

\* The titles of the section headings of a document, in the order drawn.
headings(calls) ==
    LET hs == SelectSeq(calls, isHeading)
    IN  [i \in 1..Len(hs) |-> hs[i].text]

\* The document with the generation date blanked.
eraseDate(calls) ==
    [i \in 1..Len(calls) |->
        IF calls[i].kind = "date" THEN [calls[i] EXCEPT !.item = 0] ELSE calls[i]]

\* Every list field of the report.
Lists(a) ==
    << a.detailedAnalysis.readability.feedback, a.detailedAnalysis.keywords.found,
       a.detailedAnalysis.keywords.missing, a.detailedAnalysis.experience.feedback,
       a.detailedAnalysis.education.feedback, a.semanticAnalysis.impactVerbs,
       a.semanticAnalysis.industryKeywords, a.suggestions.critical,
       a.suggestions.recommended, a.suggestions.optional,
       a.hardSkills, a.softSkills >>

AllListsEmpty(a) == \A k \in 1..Len(Lists(a)) : Lists(a)[k] = <<>>

\* The document holds the title, the metadata, the score, every section
\* heading and the footer.
Complete(calls) ==
    /\ \A k \in 1..Len(HeaderKinds) : Count(calls, HeaderKinds[k]) = 1
    /\ headings(calls) = SectionTitles
    /\ Count(calls, "footer") = 1

(***************************************************************************)
(* C1.  End to end: the report analyzeResume produces (score 85, 4         *)
(* feedback strings per feedback list, 4 found and 3 missing keywords, 6   *)
(* impact verbs, 4 industry keywords, 3 suggestions per tier, 7 hard and   *)
(* 7 soft skills) renders to a document of exactly one page: addPage is    *)
(* never called.  This is the statement as claimed; the renderer breaks    *)
(* the page twice.                                                         *)
(***************************************************************************)
C1_OnePage ==
    \A n \in 1..Len(saved) : pagesOf(saved[n].doc) = 1

\* C1 as amended: the same report renders to exactly three pages (addPage
\* is called exactly twice); page 1 carries the title 'Resume Analysis
\* Report' at the top cursor and the line 'Overall ATS Score: 85/100', and
\* the footer is on page 3.
C1_ThreePages ==
    \A n \in 1..Len(saved) :
        LET a == saved[n].analysis
            d == saved[n].doc
        IN  /\ a.score = 85
            /\ Len(a.detailedAnalysis.readability.feedback) = 4
            /\ Len(a.detailedAnalysis.experience.feedback) = 4
            /\ Len(a.detailedAnalysis.education.feedback) = 4
            /\ Len(a.detailedAnalysis.keywords.found) = 4
            /\ Len(a.detailedAnalysis.keywords.missing) = 3
            /\ Len(a.semanticAnalysis.impactVerbs) = 6
            /\ Len(a.semanticAnalysis.industryKeywords) = 4
            /\ Len(a.suggestions.critical) = 3
            /\ Len(a.suggestions.recommended) = 3
            /\ Len(a.suggestions.optional) = 3
            /\ Len(a.hardSkills) = 7
            /\ Len(a.softSkills) = 7
            /\ Count(d, "addPage") = 2
            /\ pagesOf(d) = 3
            /\ \E i \in 1..Len(d) :
                  /\ d[i].kind = "title" /\ d[i].text = "Resume Analysis Report"
                  /\ d[i].page = 1 /\ d[i].y = 20
            /\ \E i \in 1..Len(d) :
                  /\ d[i].kind = "score" /\ d[i].item = 85 /\ d[i].page = 1
            /\ \E i \in 1..Len(d) :
                  /\ d[i].kind = "footer" /\ d[i].text = footerText
                  /\ d[i].page = 3

C1_Witness ==
    /\ Len(saved) > 0
    /\ saved[1].fileName = "detailed-resume-analysis.pdf"
    /\ Count(saved[1].doc, "bullet") = 48

(***************************************************************************)
(* C2.  Every line drawn in the body of the document (title, metadata,     *)
(* score, section heading, bulleted content line) is drawn at a vertical   *)
(* position that does not exceed pageHeight - margin.  The statement as    *)
(* claimed: a section heading is drawn without the page-break test.        *)
(***************************************************************************)
C2_BodyAboveBottomMargin ==
    doc # NULL =>
        \A i \in 1..Len(doc.calls) :
            doc.calls[i].kind \in BodyKinds => doc.calls[i].y <= pageHeight - margin

(***************************************************************************)
(* C3.  A report whose list fields are all empty renders to a document     *)
(* with the title, the score line and all 11 section headings, no          *)
(* bulleted content line at all and no new page.  The statement as         *)
(* claimed: the Keyword Analysis section always has two content strings.   *)
(***************************************************************************)
C3_NoContentLines ==
    \A n \in 1..Len(saved) :
        AllListsEmpty(saved[n].analysis) =>
            /\ Count(saved[n].doc, "title") = 1
            /\ Count(saved[n].doc, "score") = 1
            /\ headings(saved[n].doc) = SectionTitles
            /\ Count(saved[n].doc, "bullet") = 0
            /\ Count(saved[n].doc, "addPage") = 0

\* C3 as amended: such a report renders to a document with the title, the
\* score line and all 11 section headings, no new page, and exactly two
\* bulleted content lines, the 'Found Keywords: ' and 'Missing Important
\* Keywords: ' lines of the Keyword Analysis section.
C3_OnlyKeywordLines ==
    \A n \in 1..Len(saved) :
        AllListsEmpty(saved[n].analysis) =>
            LET d == saved[n].doc
            IN  /\ Count(d, "title") = 1
                /\ Count(d, "score") = 1
                /\ headings(d) = SectionTitles
                /\ Count(d, "addPage") = 0
                /\ Count(d, "bullet") = 2
                /\ \A i \in 1..Len(d) :
                      d[i].kind = "bullet" =>
                          /\ d[i].text = "Keyword Analysis"
                          /\ d[i].line = 1
                /\ \E i, j \in 1..Len(d) :
                      /\ i < j
                      /\ d[i].kind = "bullet" /\ d[i].item = 1
                      /\ d[j].kind = "bullet" /\ d[j].item = 2

C3_Witness ==
    /\ Len(saved) = 1
    /\ AllListsEmpty(saved[1].analysis)
    /\ Count(saved[1].doc, "heading") = 11


(***************************************************************************)
(* C4.  Upload retention: once every pending read has completed, the       *)
(* stored analysis is that of the last uploaded file: its fileName is the  *)
(* name of the stored file and its preview is that file's.  The statement  *)
(* as claimed: a read that completes late overwrites the analysis of a     *)
(* later upload.                                                           *)
(***************************************************************************)
C4_LastUploadRetained ==
    (nUploads > 0 /\ \A f \in Files : pending[f] = 0) =>
        /\ analysis # NULL
        /\ analysis.fileName = file.name
        /\ analysis.filePreview = getFilePreview(file)

C6_SectionOrder ==
    /\ doc # NULL =>
          LET c == doc.calls
              h == headings(c)
          IN  /\ Len(h) <= Len(SectionTitles)
              /\ \A k \in 1..Len(h) : h[k] = SectionTitles[k]
              /\ \A i \in 1..Len(c) :
                    /\ i <= Len(HeaderKinds) => c[i].kind = HeaderKinds[i]
                    /\ (\E k \in 1..Len(HeaderKinds) : c[i].kind = HeaderKinds[k])
                          => i <= Len(HeaderKinds)
                    /\ c[i].kind = "bullet" =>
                          \E j \in 1..(i - 1) :
                              /\ c[j].kind = "heading"
                              /\ c[j].text = c[i].text
                              /\ \A k \in (j + 1)..(i - 1) : c[k].kind # "heading"
    /\ \A n \in 1..Len(saved) : headings(saved[n].doc) = SectionTitles

\* A delivered document with content lines in the last section.
C6_Witness ==
    /\ Len(saved) = 1
    /\ \E i \in 1..Len(saved[1].doc) :
          /\ saved[1].doc[i].kind = "bullet"
          /\ saved[1].doc[i].text = "Soft Skills"
          /\ saved[1].doc[i].item > 1

(***************************************************************************)
(* C7.  Single footer: a run draws the footer at most once, and nothing    *)
(* but the save follows it; in a delivered document the footer is drawn    *)
(* exactly once, as the last call, at pageHeight - 10 on the final page,   *)
(* however many page breaks occurred.                                      *)
(***************************************************************************)
C7_SingleFooter ==
    /\ doc # NULL =>
          LET c == doc.calls
          IN  /\ Count(c, "footer") <= 1
              /\ \A i, j \in 1..Len(c) :
                    (c[i].kind = "footer" /\ i < j) => c[j].kind = "save"
    /\ \A n \in 1..Len(saved) :
          LET d == saved[n].doc
          IN  /\ Count(d, "footer") = 1
              /\ d[Len(d)].kind = "footer"
              /\ d[Len(d)].y = pageHeight - 10
              /\ d[Len(d)].page = pagesOf(d)

\* A delivered document of several pages.
C7_Witness ==
    /\ Len(saved) = 1
    /\ pagesOf(saved[1].doc) > 2
    /\ saved[1].doc[Len(saved[1].doc)].page > 2

(***************************************************************************)
(* C8.  No partial document: a run calls save at most once and only as     *)
(* its last call, after the title, the metadata, the score, all 11         *)
(* section headings and the footer have been drawn; every delivered file   *)
(* is named detailed-resume-analysis.pdf and is complete; a run in which   *)
(* a drawing or pagination call fails delivers no file.                    *)
(***************************************************************************)
C8_NoPartialDocument ==
    /\ doc # NULL =>
          LET c == doc.calls
          IN  /\ Count(c, "save") <= 1
              /\ \A i \in 1..Len(c) :
                    c[i].kind = "save" =>
                        /\ i = Len(c)
                        /\ Complete(SubSeq(c, 1, i - 1))
              /\ Count(c, "save") = 0 => saved = <<>>
    /\ \A n \in 1..Len(saved) :
          /\ saved[n].fileName = "detailed-resume-analysis.pdf"
          /\ Complete(saved[n].doc)
          /\ Count(saved[n].doc, "save") = 0

\* A run that failed after the last section had been drawn.
C8_Witness ==
    /\ doc # NULL
    /\ saved = <<>>
    /\ headings(doc.calls) = SectionTitles
    /\ Count(doc.calls, "footer") = 0

(***************************************************************************)
(* C9.  Multi-page on overflow: a report whose wrapped content lines,      *)
(* summed over all sections, exceed the one-page capacity                  *)
(* floor((pageHeight - topMargin - bottomMargin) / lineHeight) = 25        *)
(* renders to a document of more than one page.                            *)
(***************************************************************************)
capacity == (pageHeight - 20 - 20) \div 10

RECURSIVE wrapped(_)
wrapped(content) ==
    IF content = <<>> THEN 0
    ELSE splitTextToSize(Head(content), 160) + wrapped(Tail(content))

RECURSIVE totalLines(_)
totalLines(secs) ==
    IF secs = <<>> THEN 0
    ELSE wrapped(Head(secs).content) + totalLines(Tail(secs))

C9_MultiPageOnOverflow ==
    /\ capacity = 25
    /\ \A n \in 1..Len(saved) :
          totalLines(Sections(saved[n].analysis)) > capacity =>
              pagesOf(saved[n].doc) > 1

\* A report of 26 wrapped content lines, one more than the capacity.
C9_Witness ==
    /\ Len(saved) = 1
    /\ totalLines(Sections(saved[1].analysis)) = capacity + 1
    /\ Count(saved[1].doc, "bullet") = capacity + 1

(***************************************************************************)
(* C10.  Content independence: two uploads with the same file name and     *)
(* different contents yield the same stored analysis apart from            *)
(* filePreview, and documents with identical lines (the generation date    *)
(* aside).                                                                 *)
(***************************************************************************)
withoutPreview(a) == [a EXCEPT !.filePreview = <<>>]

C10_ContentIndependent ==
    /\ \A m, n \in 1..Len(saved) :
          saved[m].analysis.fileName = saved[n].analysis.fileName =>
              /\ withoutPreview(saved[m].analysis) = withoutPreview(saved[n].analysis)
              /\ eraseDate(saved[m].doc) = eraseDate(saved[n].doc)
    /\ \A n \in 1..Len(saved) :
          (analysis # NULL /\ analysis.fileName = saved[n].analysis.fileName) =>
              withoutPreview(analysis) = withoutPreview(saved[n].analysis)

\* Two deliveries for uploads of the same name and different contents.
C10_Witness ==
    /\ Len(saved) = 2
    /\ saved[1].analysis.fileName = saved[2].analysis.fileName
    /\ saved[1].analysis.filePreview # saved[2].analysis.filePreview


(***************************************************************************)
(* C11.  Per-line page break: before each wrapped content line is drawn    *)
(* the cursor is tested; beyond pageHeight - margin a page is added and    *)
(* the cursor reset to the top margin, and only then is the line drawn     *)
(* and the cursor advanced by one line height.  So every bulleted line is  *)
(* drawn at margin <= y <= pageHeight - margin; a page is added only when  *)
(* the cursor left by the previous call is beyond the threshold; the line  *)
(* that triggers the break is the first line of the new page, at           *)
(* y = margin; a line that triggers none is drawn one line height below    *)
(* the call before it; and the list goes on across the page boundary       *)
(* under the same heading, which is not drawn again.                       *)
(***************************************************************************)
C11_PerLinePageBreak ==
    doc # NULL =>
        LET c == doc.calls
        IN  \A i \in 1..Len(c) :
              /\ c[i].kind = "bullet" =>
                    /\ margin <= c[i].y
                    /\ c[i].y <= pageHeight - margin
                    /\ i > 1
                    /\ c[i - 1].kind \in {"heading", "bullet"} =>
                          /\ c[i].y = c[i - 1].y + lineHeight
                          /\ c[i].page = c[i - 1].page
                          /\ c[i].text = c[i - 1].text
              /\ c[i].kind = "addPage" =>
                    /\ i > 1
                    /\ c[i - 1].kind \in {"heading", "bullet"}
                    /\ c[i - 1].y + lineHeight > pageHeight - margin
                    /\ c[i].page = c[i - 1].page + 1
                    /\ i < Len(c) =>
                          /\ c[i + 1].kind = "bullet"
                          /\ c[i + 1].y = margin
                          /\ c[i + 1].page = c[i].page
                          /\ c[i + 1].text = c[i - 1].text

\* A list that continues across a page boundary, in a delivered document.
C11_Witness ==
    /\ Len(saved) = 1
    /\ \E i \in 2..(Len(saved[1].doc) - 1) :
          /\ saved[1].doc[i].kind = "addPage"
          /\ saved[1].doc[i - 1].kind = "bullet"
          /\ saved[1].doc[i + 1].kind = "bullet"
          /\ saved[1].doc[i + 1].item = saved[1].doc[i - 1].item + 1
          /\ saved[1].doc[i + 1].y = margin


(***************************************************************************)
(* C12.  Empty list section: addSection(title, []) draws the heading at    *)
(* the current cursor, advances the cursor by exactly two line heights,    *)
(* draws no content line, makes no page-break test and leaves the page     *)
(* count unchanged, whatever the cursor is when it is called.  On the      *)
(* document: the heading of a section without content is drawn once, on    *)
(* the page of the call before it and two line heights below it (the       *)
(* cursor that call left, also beyond the bottom margin), no bullet        *)
(* carries its title, and the very next call is the heading of the next    *)
(* section, on the same page two line heights further down, or the         *)
(* footer after the last section.                                          *)
(***************************************************************************)
C12_EmptySection ==
    \A n \in 1..Len(saved) :
        LET d == saved[n].doc
            secs == Sections(saved[n].analysis)
        IN  \A k \in 1..Len(secs) :
              secs[k].content = <<>> =>
                /\ \A j \in 1..Len(d) :
                      d[j].kind = "bullet" => d[j].text # secs[k].title
                /\ Cardinality({j \in 1..Len(d) : /\ d[j].kind = "heading"
                                                   /\ d[j].text = secs[k].title}) = 1
                /\ \A i \in 1..Len(d) :
                      (d[i].kind = "heading" /\ d[i].text = secs[k].title) =>
                        /\ i > 1 /\ i < Len(d)
                        /\ d[i - 1].kind \in {"score", "heading", "bullet"}
                        /\ d[i].y = d[i - 1].y + 2 * lineHeight
                        /\ d[i].page = d[i - 1].page
                        /\ d[i + 1].page = d[i].page
                        /\ IF k < Len(secs)
                           THEN /\ d[i + 1].kind = "heading"
                                /\ d[i + 1].text = secs[k + 1].title
                                /\ d[i + 1].y = d[i].y + 2 * lineHeight
                           ELSE d[i + 1].kind = "footer"

\* An empty section entered with the cursor beyond the bottom margin,
\* followed by another section.
C12_Witness ==
    /\ Len(saved) = 1
    /\ \E i \in 1..(Len(saved[1].doc) - 1) :
          /\ saved[1].doc[i].kind = "heading"
          /\ saved[1].doc[i].y > pageHeight - margin
          /\ saved[1].doc[i + 1].kind = "heading"
          /\ saved[1].doc[i + 1].y = saved[1].doc[i].y + 2 * lineHeight


(***************************************************************************)
(* C13.  Report availability: the stored analysis is null at the start     *)
(* and becomes non-null only when a pending file read completes; once      *)
(* non-null it never becomes null again under any drag, drop, select or    *)
(* download event; while it is null no event creates a document or saves   *)
(* a file, handleDownloadReport included; and every step that creates a    *)
(* document or saves a file happens while the analysis is non-null,        *)
(* renders the analysis stored at that moment, delivers it as one more     *)
(* file and changes neither the analysis nor any other component state.    *)
(***************************************************************************)
C13_ReportAvailability ==
    /\ analysis = NULL
    /\ [][ /\ analysis # NULL => analysis' # NULL
           /\ (analysis = NULL /\ analysis' # NULL) =>
                 \E f \in Files : /\ pending[f] > 0
                                  /\ pending' = [pending EXCEPT ![f] = @ - 1]
           /\ analysis = NULL =>
                 /\ doc = NULL /\ saved = <<>>
                 /\ doc' = NULL /\ saved' = <<>>
           /\ (doc' # doc \/ saved' # saved) =>
                 /\ analysis # NULL
                 /\ UNCHANGED <<file, isDragging, analysis, pending, nUploads>>
                 /\ Len(doc'.calls) >= Len(HeaderKinds)
                 /\ doc'.calls[3].kind = "date"
                 /\ doc'.calls[3].item \in Dates
                 /\ doc'.calls = Render(analysis, doc'.calls[3].item)
                 /\ Len(saved') = Len(saved) + 1
                 /\ SubSeq(saved', 1, Len(saved)) = saved
                 /\ saved'[Len(saved')].analysis = analysis
                 /\ Append(saved'[Len(saved')].doc, doc'.calls[Len(doc'.calls)])
                       = doc'.calls
         ]_vars

\* A report was delivered, a later upload replaced the analysis, and the
\* next download rendered the analysis then stored.
C13_Witness ==
    /\ Len(saved) = 2
    /\ saved[1].analysis # saved[2].analysis
    /\ saved[2].analysis = analysis
    /\ nUploads = 2

====
